---- MODULE Spec2Model ----
(***************************************************************************)
(* tfpp: packaging of a Terraform provider build for a static registry.    *)
(* One run of main.go's provider(): fetch the remote discovery document    *)
(* and version list, parse the checksum manifest, merge and write the      *)
(* versions document, lay out the release tree, copy the build files and   *)
(* write one architecture document per recognized manifest entry.          *)
(*                                                                         *)
(* Strings are sequences of one-character strings, so that strings.Split,  *)
(* strings.HasSuffix and bufio.ScanLines are computed as the Go library    *)
(* computes them.  A path on disk is the sequence of its non-empty         *)
(* components.  A JSON document is a function from its keys to values.     *)
(***************************************************************************)
EXTENDS Integers, Sequences, FiniteSets, TLC

\* ------------------------------------------------------------------ bounds

\* longest checksum manifest, in lines
MaxLines == 2
\* longest remote version history, in records
MaxRemote == 2

\* ----------------------------------------------------------------- strings

NL == "\n"
CR == "\r"
Slash == <<"/">>
Underscore == <<"_">>
TwoSpaces == <<" ", " ">>
ZipExt == <<".", "z", "i", "p">>

\* strings.Index: the first position at which sep occurs in s, 0 when none
Index(s, sep) ==
  LET hits == {i \in 1..(Len(s) - Len(sep) + 1) : SubSeq(s, i, i + Len(sep) - 1) = sep}
  IN  IF hits = {} THEN 0 ELSE CHOOSE i \in hits : \A j \in hits : i <= j

\* strings.Split(s, sep) for a non-empty sep: leftmost non-overlapping cuts
RECURSIVE Split(_, _)
Split(s, sep) ==
  LET i == Index(s, sep)
  IN  IF i = 0 THEN <<s>>
      ELSE <<SubSeq(s, 1, i - 1)>> \o Split(SubSeq(s, i + Len(sep), Len(s)), sep)

\* strings.Join
RECURSIVE Join(_, _)
Join(elems, sep) ==
  IF elems = <<>> THEN <<>>
  ELSE IF Len(elems) = 1 THEN elems[1]
  ELSE elems[1] \o sep \o Join(Tail(elems), sep)

\* strings.HasSuffix
HasSuffix(s, suffix) ==
  Len(s) >= Len(suffix) /\ SubSeq(s, Len(s) - Len(suffix) + 1, Len(s)) = suffix

\* bufio's dropCR: a trailing carriage return is not part of the line
DropCR(data) ==
  IF Len(data) > 0 /\ data[Len(data)] = CR THEN SubSeq(data, 1, Len(data) - 1) ELSE data

\* bufio.ScanLines driven to the end of the input: every newline ends a line
\* (an empty one too); a final unterminated non-empty chunk is a line
RECURSIVE ScanLines(_)
ScanLines(data) ==
  IF data = <<>> THEN <<>>
  ELSE LET i == Index(data, <<NL>>)
       IN  IF i = 0 THEN <<DropCR(data)>>
           ELSE <<DropCR(SubSeq(data, 1, i - 1))>> \o ScanLines(SubSeq(data, i + 1, Len(data)))

\* --------------------------------------------------------------- the inputs

\* command-line flags of the run (main.go:63-70)
namespace == <<"n", "s">>
providerName == <<"a", "c">>
repoName == <<"t", "p">>
version == <<"1", ".", "1", ".", "0">>
oldVersion == <<"1", ".", "0", ".", "0">>
domain == <<"d", ".", "i", "o">>
gpgFingerprint == <<"F", "P">>

linux == <<"l", "i", "n", "u", "x">>
darwin == <<"d", "a", "r", "w", "i", "n">>
freebsd == <<"f", "r", "e", "e", "b", "s", "d">>
windows == <<"w", "i", "n", "d", "o", "w", "s">>
amd64 == <<"a", "m", "d", "6", "4">>
arm64 == <<"a", "r", "m", "6", "4">>
\* an operating system Go builds for that createTargetDirs does not list
plan9 == <<"p", "l", "a", "n", "9">>

\* file names a checksum manifest may list
zipLinux == repoName \o Underscore \o version \o Underscore \o linux \o Underscore \o amd64 \o ZipExt
zipDarwin == repoName \o Underscore \o version \o Underscore \o darwin \o Underscore \o arm64 \o ZipExt
readmeTxt == <<"R", ".", "t", "x", "t">>
noZipLinux == repoName \o Underscore \o version \o Underscore \o linux \o Underscore \o arm64
zipPlan9 == repoName \o Underscore \o version \o Underscore \o plan9 \o Underscore \o amd64 \o ZipExt
zipShort == repoName \o Underscore \o version \o ZipExt
\* a second archive of the linux/amd64 platform, with a fifth part
zipLinuxAgain ==
  repoName \o Underscore \o version \o Underscore \o linux \o Underscore \o amd64 \o Underscore \o <<"b">> \o ZipExt

\* lines a checksum manifest may hold: <checksum><two spaces><filename>, and
\* the lines a hand-edited or truncated manifest holds
lineLinux == <<"a", "a">> \o TwoSpaces \o zipLinux
lineDarwin == <<"b", "b">> \o TwoSpaces \o zipDarwin
lineReadme == <<"c", "c">> \o TwoSpaces \o readmeTxt
lineNoZip == <<"d", "d">> \o TwoSpaces \o noZipLinux
lineBlank == <<>>
lineOneSpace == <<"e", "e", " ">> \o zipLinux
linePlan9 == <<"g", "g">> \o TwoSpaces \o zipPlan9
lineShort == <<"h", "h">> \o TwoSpaces \o zipShort
lineLinuxAgain == <<"f", "f">> \o TwoSpaces \o zipLinuxAgain

ManifestLines ==
  {lineLinux, lineDarwin, lineReadme, lineNoZip, lineBlank, lineOneSpace,
   linePlan9, lineShort, lineLinuxAgain}

\* the manifest texts of at most MaxLines lines, with and without a final newline
ManifestTexts ==
  {Join(ls, <<NL>>) \o tail :
     ls \in UNION {[1..k -> ManifestLines] : k \in 0..MaxLines},
     tail \in {<<>>, <<NL>>}}

\* -------------------------------------------------------------------- JSON

\* the Go values (main.go:15-38)
Platform(os, arch) == [Os |-> os, Arch |-> arch]
Protocols == << <<"4", ".", "0">>, <<"5", ".", "1">> >>
defaultWellKnownData ==
  [ProvidersV1 |-> <<"/", "v", "1", "/", "p", "r", "o", "v", "i", "d", "e", "r", "s", "/">>,
   ModulesV1 |-> <<"/", "v", "1", "/", "m", "o", "d", "u", "l", "e", "s", "/">>]

\* a byte that is no valid UTF-8 (one element of a string, like a character),
\* and U+FFFD, the rune the encoder writes in its place
InvalidByte == "xFF"
ReplacementRune == "uFFFD"

\* encoding/json on a string: the text coerced to valid UTF-8, every invalid
\* byte replaced by U+FFFD
JsonString(s) == [i \in 1..Len(s) |-> IF s[i] = InvalidByte THEN ReplacementRune ELSE s[i]]
JsonStrings(ss) == [i \in 1..Len(ss) |-> JsonString(ss[i])]

\* json.MarshalIndent of each type: the struct tags name the keys
MarshalWellKnown(w) ==
  ("providers.v1" :> JsonString(w.ProvidersV1)) @@ ("modules.v1" :> JsonString(w.ModulesV1))
\* a Platform whose fields have lost their json tags
MarshalPlatformUntagged(p) == ("Os" :> JsonString(p.Os)) @@ ("Arch" :> JsonString(p.Arch))
\* main.go:15-18
MarshalPlatform(p) == ("os" :> JsonString(p.Os)) @@ ("arch" :> JsonString(p.Arch))
\* main.go:20-28
MarshalVersion(v) ==
  ("version" :> JsonString(v.Version)) @@ ("protocols" :> JsonStrings(v.Protocols))
    @@ ("platforms" :> [i \in 1..Len(v.Platforms) |-> MarshalPlatform(v.Platforms[i])])
MarshalVersions(vs) == ("versions" :> [i \in 1..Len(vs) |-> MarshalVersion(vs[i])])

\* a response body: text that parses as a JSON object, or text that does not
JsonBody(obj) == [parses |-> TRUE, obj |-> obj]
GarbageBody == [parses |-> FALSE, obj |-> <<>>]

\* json.Unmarshal into each type: an absent key leaves the zero value
Field(obj, key, zero) == IF key \in DOMAIN obj THEN obj[key] ELSE zero
UnmarshalWellKnown(obj) ==
  [ProvidersV1 |-> Field(obj, "providers.v1", <<>>), ModulesV1 |-> Field(obj, "modules.v1", <<>>)]
UnmarshalPlatform(obj) == [Os |-> Field(obj, "os", <<>>), Arch |-> Field(obj, "arch", <<>>)]
UnmarshalVersion(obj) ==
  [Version |-> Field(obj, "version", <<>>),
   Protocols |-> Field(obj, "protocols", <<>>),
   Platforms |-> LET ps == Field(obj, "platforms", <<>>)
                 IN  [i \in 1..Len(ps) |-> UnmarshalPlatform(ps[i])]]
UnmarshalVersions(obj) ==
  LET vs == Field(obj, "versions", <<>>) IN [i \in 1..Len(vs) |-> UnmarshalVersion(vs[i])]

\* --------------------------------------------------------- the file system

\* a path as the operating system resolves it: its non-empty components
Clean(path) == SelectSeq(Split(path, Slash), LAMBDA c : c # <<>>)
Parent(p) == SubSeq(p, 1, Len(p) - 1)
Prefixes(p) == {SubSeq(p, 1, k) : k \in 0..Len(p)}

IsDir(fs, p) == p \in fs.dirs
IsFile(fs, p) == p \in DOMAIN fs.files
Exists(fs, p) == IsDir(fs, p) \/ IsFile(fs, p)

\* os.Stat fails with "not exist": nothing is there and the way to it is directories
StatNotExist(fs, p) == ~Exists(fs, p) /\ \A q \in Prefixes(p) : ~IsFile(fs, q)

\* createDir: nothing to do unless Stat says "not exist"; then os.Mkdir, which needs the parent
createDir(fs, path) ==
  LET p == Clean(path)
  IN  IF ~StatNotExist(fs, p) THEN [ok |-> TRUE, fs |-> fs]
      ELSE IF IsDir(fs, Parent(p)) THEN [ok |-> TRUE, fs |-> [fs EXCEPT !.dirs = @ \cup {p}]]
      ELSE [ok |-> FALSE, fs |-> fs]

\* createDirRecursive: os.MkdirAll makes every missing directory on the way
createDirRecursive(fs, path) ==
  LET p == Clean(path)
  IN  IF \E q \in Prefixes(p) : IsFile(fs, q) THEN [ok |-> FALSE, fs |-> fs]
      ELSE [ok |-> TRUE, fs |-> [fs EXCEPT !.dirs = @ \cup Prefixes(p)]]

\* writeFile: os.WriteFile creates or truncates the file; its directory must exist
writeFile(fs, fileName, fileContents) ==
  LET p == Clean(fileName)
  IN  IF p # <<>> /\ IsDir(fs, Parent(p)) /\ ~IsDir(fs, p)
      THEN [ok |-> TRUE, fs |-> [fs EXCEPT !.files = (p :> fileContents) @@ @]]
      ELSE [ok |-> FALSE, fs |-> fs]

\* ------------------------------------------------- the remote registry

\* what an HTTP GET can come to: a transport error, a status other than 200,
\* a body that cannot be read to its end, or a 200 with its body
HttpOutcomes == {"neterr", "non200", "readerr", "ok"}

customWellKnownData == [ProvidersV1 |-> <<"/", "p", "/">>, ModulesV1 |-> <<"/", "m", "/">>]

\* discovery documents whose providers.v1 lacks the final slash, or is empty
noSlashWellKnownData == [ProvidersV1 |-> <<"/", "p">>, ModulesV1 |-> <<"/", "m">>]
emptyWellKnownData == [ProvidersV1 |-> <<>>, ModulesV1 |-> <<>>]

\* discovery documents a registry may serve
WellKnownBodies ==
  {JsonBody(MarshalWellKnown(customWellKnownData)), GarbageBody,
   JsonBody(MarshalWellKnown(noSlashWellKnownData)),
   JsonBody(MarshalWellKnown(emptyWellKnownData))}

\* version records a registry may already list
RemoteRecords ==
  {[Version |-> oldVersion, Protocols |-> Protocols, Platforms |-> <<Platform(linux, amd64)>>],
   [Version |-> oldVersion, Protocols |-> Protocols, Platforms |-> <<>>],
   [Version |-> version, Protocols |-> Protocols, Platforms |-> <<Platform(darwin, arm64)>>]}
RemoteHistories == UNION {[1..k -> RemoteRecords] : k \in 0..MaxRemote}
VersionsBodies == {JsonBody(MarshalVersions(h)) : h \in RemoteHistories} \cup {GarbageBody}

\* the manifest file of a run: present with one of the texts, or absent
ManifestFiles ==
  {[exists |-> TRUE, text |-> t] : t \in ManifestTexts} \cup {[exists |-> FALSE, text |-> <<>>]}

\* a plain build and a plain registry
plainManifest == [exists |-> TRUE, text |-> lineLinux \o <<NL>> \o lineDarwin \o <<NL>>]
plainVersions == JsonBody(MarshalVersions(<<CHOOSE r \in RemoteRecords : r.Platforms = <<Platform(linux, amd64)>> >>))
plainWellKnown == JsonBody(MarshalWellKnown(customWellKnownData))

\* the runs explored: every manifest, every version list, and every discovery
\* document with every outcome of the two GETs, each against a plain rest
Inputs ==
  {[manifest |-> m, versions |-> plainVersions, wellKnown |-> plainWellKnown,
    get1 |-> "ok", get2 |-> "ok"] : m \in ManifestFiles}
    \cup {[manifest |-> plainManifest, versions |-> b, wellKnown |-> plainWellKnown,
           get1 |-> "ok", get2 |-> "ok"] : b \in VersionsBodies}
    \cup {[manifest |-> plainManifest, versions |-> plainVersions, wellKnown |-> w,
           get1 |-> g1, get2 |-> g2] :
             w \in WellKnownBodies, g1 \in HttpOutcomes, g2 \in HttpOutcomes}

\* fixed paths of the release tree
releaseDir == <<"r", "e", "l", "e", "a", "s", "e">>
wellKnownDir == <<"r", "e", "l", "e", "a", "s", "e", "/", ".", "w", "e", "l", "l", "-", "k", "n", "o", "w", "n", "/">>
wellKnownFile == <<"r", "e", "l", "e", "a", "s", "e", "/">> \o <<".", "w", "e", "l", "l", "-", "k", "n", "o", "w", "n", "/", "t", "e", "r", "r", "a", "f", "o", "r", "m", ".", "j", "s", "o", "n">>

\* ------------------------------------------------------------------- state

VARIABLES
  pc,                  \* the call of provider() that runs next, or how the run ended
  failure,             \* why the run ended early
  distManifest,        \* dist/<repoName>_<version>_SHA256SUMS: [exists, text]
  registryWellKnown,   \* body the registry serves at /.well-known/terraform.json
  registryVersions,    \* body the registry serves at .../versions
  getWellKnown,        \* what the GET of the discovery document comes to
  getVersions,         \* what the GET of the version list comes to
  wkFetch,             \* how the discovery fetch of this run went
  versFetch,           \* how the version-list fetch of this run went
  registryVersionFile, \* downloadVersionsFile's first result
  wellKnownData,       \* downloadVersionsFile's second result
  shaSumContents,      \* getShaSumContents' rows in the function running
  idx,                 \* position of the running loop in shaSumContents
  ver,                 \* the version record createVersionsFile builds
  versionPath,         \* providerDirs' result
  downloadPath,        \* createDownloadsDir's result
  gpgAsciiPub,         \* the public key text createArchitectureFiles embeds
  fs,                  \* the working directory: [dirs, files]
  jsonStage,           \* how far a value is through json.Marshal and json.Unmarshal
  jsonValue,           \* the value in memory: [kind, val]
  jsonDocument,        \* what json.Marshal made of it
  jsonDecoded          \* what json.Unmarshal made of the document

\* the state of a run of provider(), and the state of an encoding round
runVars == <<pc, failure, distManifest, registryWellKnown, registryVersions,
             getWellKnown, getVersions, wkFetch, versFetch,
             registryVersionFile, wellKnownData, shaSumContents, idx, ver,
             versionPath, downloadPath, gpgAsciiPub, fs>>
jsonVars == <<jsonStage, jsonValue, jsonDocument, jsonDecoded>>

vars == <<runVars, jsonVars>>

\* no value is being encoded
JsonIdle ==
  /\ jsonStage = "idle"
  /\ jsonValue = <<>>
  /\ jsonDocument = <<>>
  /\ jsonDecoded = <<>>

\* main (main.go:94-102) has deleted and recreated release/ before provider() runs
Init ==
  /\ pc = "downloadVersionsFile"
  /\ failure = "none"
  /\ \E in \in Inputs :
       /\ distManifest = in.manifest
       /\ registryVersions = in.versions
       /\ registryWellKnown = in.wellKnown
       /\ getWellKnown = in.get1
       /\ getVersions = in.get2
  /\ wkFetch = "none"
  /\ versFetch = "none"
  /\ registryVersionFile = <<>>
  /\ wellKnownData = defaultWellKnownData
  /\ shaSumContents = <<>>
  /\ idx = 1
  /\ ver = [Version |-> version, Protocols |-> Protocols, Platforms |-> <<>>]
  /\ versionPath = <<>>
  /\ downloadPath = <<>>
  /\ gpgAsciiPub = <<>>
  /\ fs = [dirs |-> {<<>>, Clean(releaseDir)}, files |-> <<>>]
  /\ JsonIdle

\* ------------------------------------------------------ downloadVersionsFile

\* how a fetch went, as the code tells the cases apart: the GET's outcome, and
\* for a 200 whether json.Unmarshal took the body
FetchResult(get, body) == IF get = "ok" /\ ~body.parses THEN "badjson" ELSE get

\* the fallback branch (main.go:242-259).  A status other than 200 comes with a
\* nil err, and the log line's err.Error() dereferences it.  After a transport
\* error the block's own err (declared by := at line 245) is nil once the
\* default document is written, and the return's err.Error() dereferences that.
wellKnownFallback(disk, get1) ==
  IF get1 = "non200"
  THEN [exit |-> "panic", why |-> "nil error dereferenced (main.go:243)", fs |-> disk]
  ELSE LET d == createDirRecursive(disk, wellKnownDir)
           w == writeFile(d.fs, wellKnownFile, MarshalWellKnown(defaultWellKnownData))
       IN  IF ~d.ok THEN [exit |-> "fatal", why |-> "Error creating directory (main.go:251)", fs |-> d.fs]
           ELSE IF ~w.ok
           THEN [exit |-> "fatal", why |-> "Error writing terraform.json file (main.go:255)", fs |-> w.fs]
           ELSE [exit |-> "panic", why |-> "nil error dereferenced (main.go:258)", fs |-> w.fs]

\* a version-list fetch that forgets the status check of main.go:278
fetchVersionsAnyStatus(get2, body) ==
  IF body.parses THEN UnmarshalVersions(body.obj) ELSE <<>>

\* the version-list fetch (main.go:276-297): every failure returns an empty
\* history with the discovery document already parsed
fetchVersions(get2, body) ==
  IF get2 = "ok" /\ body.parses THEN UnmarshalVersions(body.obj) ELSE <<>>

\* downloadVersionsFile (main.go:236-298) on the two GET outcomes get1 and get2
downloadVersionsFile(disk, get1, get2) ==
  IF get1 \in {"neterr", "non200"}
  THEN LET f == wellKnownFallback(disk, get1)
       IN  [exit |-> f.exit, why |-> f.why, fs |-> f.fs,
            versions |-> <<>>, wellKnown |-> defaultWellKnownData]
  ELSE IF get1 = "readerr" \/ ~registryWellKnown.parses
  THEN [exit |-> "return", why |-> "none", fs |-> disk,
        versions |-> <<>>, wellKnown |-> defaultWellKnownData]
  ELSE [exit |-> "return", why |-> "none", fs |-> disk,
        versions |-> fetchVersions(get2, registryVersions),
        wellKnown |-> UnmarshalWellKnown(registryWellKnown.obj)]

\* createVersionsFile's call at main.go:162; the returned error is dropped
DownloadVersionsFile ==
  /\ pc = "downloadVersionsFile"
  /\ LET r == downloadVersionsFile(fs, getWellKnown, getVersions)
         first == FetchResult(getWellKnown, registryWellKnown)
     IN  /\ wkFetch' = first
         /\ versFetch' = IF first = "ok" THEN FetchResult(getVersions, registryVersions) ELSE "none"
         /\ registryVersionFile' = r.versions
         /\ wellKnownData' = r.wellKnown
         /\ fs' = r.fs
         /\ failure' = r.why
         /\ pc' = IF r.exit = "return" THEN "getShaSumContents" ELSE r.exit
  /\ UNCHANGED <<distManifest, getWellKnown, getVersions, registryWellKnown, registryVersions,
                 shaSumContents, idx, ver, versionPath, downloadPath, gpgAsciiPub>>
  /\ UNCHANGED jsonVars

\* ------------------------------------------------------- getShaSumContents

\* a readFile that drops the error of os.Open and reads nothing
readFileNoError(file) == [err |-> FALSE, lines |-> ScanLines(file.text)]

\* readFile (main.go:535-552): the lines of the file, or the error of os.Open
readFile(file) ==
  IF file.exists THEN [err |-> FALSE, lines |-> ScanLines(file.text)]
  ELSE [err |-> TRUE, lines |-> <<>>]

\* the row main.go:388-390 makes of one line; lineSplit[1] needs two fields
lineSplit(line) == Split(line, TwoSpaces)
rowPanics(line) == Len(lineSplit(line)) < 2
row(line) == <<lineSplit(line)[1], lineSplit(line)[2]>>

\* getShaSumContents (main.go:376-395)
getShaSumContents(file) ==
  LET r == readFile(file)
  IN  IF r.err THEN [exit |-> "error", rows |-> <<>>]
      ELSE IF \E k \in 1..Len(r.lines) : rowPanics(r.lines[k])
      THEN [exit |-> "panic", rows |-> <<>>]
      ELSE [exit |-> "return", rows |-> [k \in 1..Len(r.lines) |-> row(r.lines[k])]]

\* createVersionsFile's call at main.go:166-169; provider() makes the error fatal (main.go:114-116)
CreateVersionsFileManifest ==
  /\ pc = "getShaSumContents"
  /\ LET r == getShaSumContents(distManifest)
     IN  /\ shaSumContents' = r.rows
         /\ pc' = CASE r.exit = "return" -> "platforms"
                    [] r.exit = "error" -> "fatal"
                    [] OTHER -> "panic"
         /\ failure' = CASE r.exit = "return" -> "none"
                         [] r.exit = "error" -> "Error creating versions file (main.go:115)"
                         [] OTHER -> "index out of range (main.go:390)"
  /\ idx' = 1
  /\ UNCHANGED <<distManifest, getWellKnown, getVersions, registryWellKnown, registryVersions,
                 wkFetch, versFetch, registryVersionFile, wellKnownData, ver, fs, versionPath,
                 downloadPath, gpgAsciiPub>>
  /\ UNCHANGED jsonVars

\* -------------------------------------------------------- createVersionsFile

\* main.go:182-183: the part before the first ".zip", cut at every "_"
cvfFileNameSplit(fileName) == Split(Split(fileName, ZipExt)[1], Underscore)

\* a loop body that lists a platform once, however many rows yield it
cvfPlatformsOnce(platforms, fileName) ==
  LET fileNameSplit == Split(Split(fileName, ZipExt)[1], Underscore)
  IN  IF Len(fileNameSplit) < 4 THEN platforms
      ELSE IF \E k \in 1..Len(platforms) : platforms[k] = Platform(fileNameSplit[3], fileNameSplit[4])
      THEN platforms
      ELSE Append(platforms, Platform(fileNameSplit[3], fileNameSplit[4]))

\* main.go:185-197: the platforms after one manifest row
cvfPlatforms(platforms, fileName) ==
  LET fileNameSplit == cvfFileNameSplit(fileName)
  IN  IF Len(fileNameSplit) < 4 THEN platforms
      ELSE Append(platforms, Platform(fileNameSplit[3], fileNameSplit[4]))

\* one round of the loop at main.go:179-198
CreateVersionsFilePlatform ==
  /\ pc = "platforms"
  /\ idx <= Len(shaSumContents)
  /\ ver' = [ver EXCEPT !.Platforms = cvfPlatforms(@, shaSumContents[idx][2])]
  /\ idx' = idx + 1
  /\ UNCHANGED <<pc, failure, distManifest, getWellKnown, getVersions, registryWellKnown,
                 registryVersions, wkFetch, versFetch, registryVersionFile, wellKnownData,
                 shaSumContents, fs, versionPath, downloadPath, gpgAsciiPub>>
  /\ UNCHANGED jsonVars

\* main.go:200-211: the remote records in order, each kept unless a record
\* already kept has its version string
RECURSIVE mergeRemote(_, _)
mergeRemote(kept, remote) ==
  IF remote = <<>> THEN kept
  ELSE LET v == Head(remote)
           exists == \E k \in 1..Len(kept) : kept[k].Version = v.Version
       IN  mergeRemote(IF exists THEN kept ELSE Append(kept, v), Tail(remote))

\* a merge that forgets the check of main.go:202-207 and keeps every remote record
mergeVersionsKeepAll(remote, new) == Append(remote, new)

\* main.go:200-213: the merged history, the new record appended at line 213
mergeVersions(remote, new) == Append(mergeRemote(<<>>, remote), new)

\* a versions path inside the directory of the version being published
versionsPathInVersionDir(wk) ==
  releaseDir \o wk.ProvidersV1 \o namespace \o Slash \o providerName \o Slash \o version
    \o <<"/", "v", "e", "r", "s", "i", "o", "n", "s">>

\* main.go:164
versionsPath(wk) ==
  releaseDir \o wk.ProvidersV1 \o namespace \o Slash \o providerName \o <<"/", "v", "e", "r", "s", "i", "o", "n", "s">>

\* main.go:220-221: the path without its last "/"-separated part
dirOf(path) ==
  LET parts == Split(path, Slash) IN Join(SubSeq(parts, 1, Len(parts) - 1), Slash)

\* main.go:215-231: the versions document written under its directory
writeVersions(disk, wk, vers) ==
  LET d == createDirRecursive(disk, dirOf(versionsPath(wk)))
      w == writeFile(d.fs, versionsPath(wk), MarshalVersions(vers))
  IN  IF ~d.ok THEN [ok |-> FALSE, why |-> "Error creating directory (main.go:223)", fs |-> d.fs]
      ELSE IF ~w.ok THEN [ok |-> FALSE, why |-> "Error writing versions file (main.go:229)", fs |-> w.fs]
      ELSE [ok |-> TRUE, why |-> "none", fs |-> w.fs]

\* the rest of createVersionsFile once the loop is over (main.go:200-233)
CreateVersionsFileWrite ==
  /\ pc = "platforms"
  /\ idx > Len(shaSumContents)
  /\ LET r == writeVersions(fs, wellKnownData, mergeVersions(registryVersionFile, ver))
     IN  /\ fs' = r.fs
         /\ failure' = r.why
         /\ pc' = IF r.ok THEN "providerDirs" ELSE "fatal"
  /\ UNCHANGED <<distManifest, getWellKnown, getVersions, registryWellKnown, registryVersions,
                 wkFetch, versFetch, registryVersionFile, wellKnownData, shaSumContents, idx,
                 ver, versionPath, downloadPath, gpgAsciiPub>>
  /\ UNCHANGED jsonVars

\* ----------------------------------------------------- the release tree

distPath == <<"d", "i", "s", "t", "/">>
shaSumFileName == repoName \o Underscore \o version \o <<"_", "S", "H", "A", "2", "5", "6", "S", "U", "M", "S">>
targets == <<darwin, freebsd, linux, windows>>

\* copyFile (main.go:510-533): os.Stat needs the source, os.Create the
\* directory of the destination
copyFile(disk, srcExists, dst, contents) ==
  IF ~srcExists THEN [ok |-> FALSE, fs |-> disk] ELSE writeFile(disk, dst, contents)

\* the loop of providerDirs (main.go:149-156) over the remaining path parts
RECURSIVE providerDirsLoop(_, _, _)
providerDirsLoop(disk, currentPath, parts) ==
  IF parts = <<>> THEN [ok |-> TRUE, fs |-> disk, path |-> currentPath]
  ELSE LET next == currentPath \o Head(parts) \o Slash
           d == createDir(disk, next)
       IN  IF d.ok THEN providerDirsLoop(d.fs, next, Tail(parts))
           ELSE [ok |-> FALSE, fs |-> d.fs, path |-> next]

\* providerDirs (main.go:144-159)
providerDirs(disk, wk) ==
  providerDirsLoop(disk, <<>>, <<releaseDir, wk.ProvidersV1, namespace, providerName, version>>)

\* provider()'s call at main.go:118
ProviderDirs ==
  /\ pc = "providerDirs"
  /\ LET r == providerDirs(fs, wellKnownData)
     IN  /\ fs' = r.fs
         /\ versionPath' = r.path
         /\ pc' = IF r.ok THEN "copyShaFiles" ELSE "fatal"
         /\ failure' = IF r.ok THEN "none" ELSE "Error creating directory (main.go:154)"
  /\ UNCHANGED <<distManifest, getWellKnown, getVersions, registryWellKnown, registryVersions,
                 wkFetch, versFetch, registryVersionFile, wellKnownData, shaSumContents, idx,
                 ver, downloadPath, gpgAsciiPub>>
  /\ UNCHANGED jsonVars

\* copyShaFiles (main.go:300-315): the manifest, then its signature
copyShaFiles(disk, destPath, shaExists, sigExists) ==
  LET a == copyFile(disk, shaExists, destPath \o shaSumFileName,
                    [copyOf |-> distPath \o Slash \o shaSumFileName])
      b == copyFile(a.fs, sigExists, destPath \o shaSumFileName \o <<".", "s", "i", "g">>,
                    [copyOf |-> distPath \o Slash \o shaSumFileName \o <<".", "s", "i", "g">>])
  IN  IF ~a.ok THEN a ELSE b

\* provider()'s call at main.go:120; the signature file may be missing from dist
CopyShaFiles ==
  /\ pc = "copyShaFiles"
  /\ \E sigExists \in BOOLEAN :
       LET r == copyShaFiles(fs, versionPath, distManifest.exists, sigExists)
       IN  /\ fs' = r.fs
           /\ pc' = IF r.ok THEN "createDownloadsDir" ELSE "fatal"
           /\ failure' = IF r.ok THEN "none" ELSE "Error copying SHA files (main.go:308, 313)"
  /\ UNCHANGED <<distManifest, getWellKnown, getVersions, registryWellKnown, registryVersions,
                 wkFetch, versFetch, registryVersionFile, wellKnownData, shaSumContents, idx,
                 ver, versionPath, downloadPath, gpgAsciiPub>>
  /\ UNCHANGED jsonVars

\* createDownloadsDir (main.go:317-328)
createDownloadsDir(disk, destPath) ==
  LET d == createDir(disk, destPath \o <<"d", "o", "w", "n", "l", "o", "a", "d", "/">>)
  IN  [ok |-> d.ok, fs |-> d.fs, path |-> destPath \o <<"d", "o", "w", "n", "l", "o", "a", "d", "/">>]

\* provider()'s call at main.go:121-124
CreateDownloadsDir ==
  /\ pc = "createDownloadsDir"
  /\ LET r == createDownloadsDir(fs, versionPath)
     IN  /\ fs' = r.fs
         /\ downloadPath' = r.path
         /\ pc' = IF r.ok THEN "createTargetDirs" ELSE "fatal"
         /\ failure' = IF r.ok THEN "none" ELSE "Error creating dir (main.go:106)"
  /\ UNCHANGED <<distManifest, getWellKnown, getVersions, registryWellKnown, registryVersions,
                 wkFetch, versFetch, registryVersionFile, wellKnownData, shaSumContents, idx,
                 ver, versionPath, gpgAsciiPub>>
  /\ UNCHANGED jsonVars

\* the loop of createTargetDirs (main.go:335-340) over the remaining targets
RECURSIVE createTargetDirsLoop(_, _, _)
createTargetDirsLoop(disk, destPath, rest) ==
  IF rest = <<>> THEN [ok |-> TRUE, fs |-> disk]
  ELSE LET d == createDir(disk, destPath \o Head(rest))
       IN  IF d.ok THEN createTargetDirsLoop(d.fs, destPath, Tail(rest)) ELSE d

\* createTargetDirs (main.go:330-343)
createTargetDirs(disk, destPath) == createTargetDirsLoop(disk, destPath, targets)

\* provider()'s call at main.go:126-129
CreateTargetDirs ==
  /\ pc = "createTargetDirs"
  /\ LET r == createTargetDirs(fs, downloadPath)
     IN  /\ fs' = r.fs
         /\ pc' = IF r.ok THEN "copyBuildZips" ELSE "fatal"
         /\ failure' = IF r.ok THEN "none" ELSE "Error creating target dirs (main.go:128)"
  /\ UNCHANGED <<distManifest, getWellKnown, getVersions, registryWellKnown, registryVersions,
                 wkFetch, versFetch, registryVersionFile, wellKnownData, shaSumContents, idx,
                 ver, versionPath, downloadPath, gpgAsciiPub>>
  /\ UNCHANGED jsonVars

\* ------------------------------------------------------------ copyBuildZips

\* a copy loop that also skips the .zip names of fewer than 4 parts
RECURSIVE copyBuildZipsLoopArchives(_, _, _, _)
copyBuildZipsLoopArchives(disk, destPath, rows, present) ==
  IF rows = <<>> THEN [ok |-> TRUE, fs |-> disk]
  ELSE LET zipName == Head(rows)[2]
       IN  IF ~HasSuffix(zipName, ZipExt) \/ Len(Split(Split(zipName, ZipExt)[1], Underscore)) < 4
           THEN copyBuildZipsLoopArchives(disk, destPath, Tail(rows), present)
           ELSE LET c == copyFile(disk, zipName \in present, destPath \o zipName,
                                  [copyOf |-> distPath \o zipName])
                IN  IF c.ok THEN copyBuildZipsLoopArchives(c.fs, destPath, Tail(rows), present)
                    ELSE c

\* the loop of copyBuildZips (main.go:353-371) over the remaining rows;
\* present holds the file names that exist in dist
RECURSIVE copyBuildZipsLoop(_, _, _, _)
copyBuildZipsLoop(disk, destPath, rows, present) ==
  IF rows = <<>> THEN [ok |-> TRUE, fs |-> disk]
  ELSE LET zipName == Head(rows)[2]
       IN  IF ~HasSuffix(zipName, ZipExt)
           THEN copyBuildZipsLoop(disk, destPath, Tail(rows), present)
           ELSE LET c == copyFile(disk, zipName \in present, destPath \o zipName,
                                  [copyOf |-> distPath \o zipName])
                IN  IF c.ok THEN copyBuildZipsLoop(c.fs, destPath, Tail(rows), present) ELSE c

\* copyBuildZips (main.go:345-374)
copyBuildZips(disk, destPath, file, present) ==
  LET r == getShaSumContents(file)
  IN  IF r.exit = "return"
      THEN LET c == copyBuildZipsLoop(disk, destPath, r.rows, present)
           IN  [exit |-> IF c.ok THEN "return" ELSE "error", fs |-> c.fs]
      ELSE [exit |-> r.exit, fs |-> disk]

\* the file names of a manifest file, for the choice of those present in dist
FileNames(file) ==
  LET r == getShaSumContents(file) IN {r.rows[k][2] : k \in 1..Len(r.rows)}

\* provider()'s call at main.go:131-134; any listed file may be missing from dist
CopyBuildZips ==
  /\ pc = "copyBuildZips"
  /\ \E present \in SUBSET FileNames(distManifest) :
       LET r == copyBuildZips(fs, downloadPath, distManifest, present)
       IN  /\ fs' = r.fs
           /\ pc' = CASE r.exit = "return" -> "createArchitectureFiles"
                      [] r.exit = "error" -> "fatal"
                      [] OTHER -> "panic"
           /\ failure' = CASE r.exit = "return" -> "none"
                           [] r.exit = "error" -> "Error copying build zips (main.go:133)"
                           [] OTHER -> "index out of range (main.go:390)"
  /\ UNCHANGED <<distManifest, getWellKnown, getVersions, registryWellKnown, registryVersions,
                 wkFetch, versFetch, registryVersionFile, wellKnownData, shaSumContents, idx,
                 ver, versionPath, downloadPath, gpgAsciiPub>>
  /\ UNCHANGED jsonVars

\* -------------------------------------------------- createArchitectureFiles

\* the public key file: absent, or two lines of ASCII armor
GpgFiles == {[exists |-> FALSE, text |-> <<>>],
             [exists |-> TRUE, text |-> <<"K", NL, "Y", NL>>]}

\* main.go:420-423: every line of the key file followed by a newline
RECURSIVE asciiArmor(_)
asciiArmor(lines) ==
  IF lines = <<>> THEN <<>> ELSE Head(lines) \o <<NL>> \o asciiArmor(Tail(lines))

\* main.go:400-408
cafPrefix(wk) == wk.ProvidersV1 \o namespace \o Slash \o providerName \o Slash \o version \o Slash
pathPrefix(wk) == releaseDir \o cafPrefix(wk)
urlPrefix(wk) == <<"h", "t", "t", "p", "s", ":", "/", "/">> \o domain \o cafPrefix(wk)
\* a download prefix that forgets the download/ directory of main.go:404
downloadUrlPrefixNoDir(wk) == urlPrefix(wk)
downloadUrlPrefix(wk) == urlPrefix(wk) \o <<"d", "o", "w", "n", "l", "o", "a", "d", "/">>
downloadPathPrefix(wk) == pathPrefix(wk) \o <<"d", "o", "w", "n", "l", "o", "a", "d", "/">>
shasumsUrl(wk) == urlPrefix(wk) \o repoName \o Underscore \o version \o <<"_", "S", "H", "A", "2", "5", "6", "S", "U", "M", "S">>
shasumsSigUrl(wk) == shasumsUrl(wk) \o <<".", "s", "i", "g">>

\* main.go:410-423: the manifest again, then the key; a missing key is fatal
CreateArchitectureFilesRead ==
  /\ pc = "createArchitectureFiles"
  /\ \E gpgFile \in GpgFiles :
       LET r == getShaSumContents(distManifest)
           k == readFile(gpgFile)
       IN  /\ shaSumContents' = r.rows
           /\ gpgAsciiPub' = IF r.exit = "return" /\ ~k.err THEN asciiArmor(k.lines) ELSE <<>>
           /\ pc' = CASE r.exit = "panic" -> "panic"
                      [] r.exit = "error" \/ k.err -> "fatal"
                      [] OTHER -> "architectures"
           /\ failure' = CASE r.exit = "panic" -> "index out of range (main.go:390)"
                           [] r.exit = "error" -> "Error creating architecture files (main.go:138)"
                           [] k.err -> "Error reading key file (main.go:417)"
                           [] OTHER -> "none"
  /\ idx' = 1
  /\ UNCHANGED <<distManifest, getWellKnown, getVersions, registryWellKnown, registryVersions,
                 wkFetch, versFetch, registryVersionFile, wellKnownData, ver, versionPath,
                 downloadPath, fs>>
  /\ UNCHANGED jsonVars

\* main.go:431-432: the part before the first ".zip", cut at every "_"
cafFileNameSplit(fileName) == Split(Split(fileName, ZipExt)[1], Underscore)

\* main.go:444-467: the architecture value of one recognized row
architecture(wk, shasum, fileName, key) ==
  [Protocols |-> Protocols,
   Os |-> cafFileNameSplit(fileName)[3],
   Arch |-> cafFileNameSplit(fileName)[4],
   Filename |-> fileName,
   DownloadUrl |-> downloadUrlPrefix(wk) \o fileName,
   ShasumsUrl |-> shasumsUrl(wk),
   ShasumsSignatureUrl |-> shasumsSigUrl(wk),
   Shasum |-> shasum,
   SigningKeys |-> [GpgPublicKeys |->
     <<[KeyId |-> gpgFingerprint, AsciiArmor |-> key, TrustSignature |-> <<>>,
        Source |-> <<>>, SourceUrl |-> <<>>]>>]]

\* json.MarshalIndent of an Architecture (main.go:40-58, 468)
MarshalGpgPublicKey(k) ==
  ("key_id" :> JsonString(k.KeyId)) @@ ("ascii_armor" :> JsonString(k.AsciiArmor))
    @@ ("trust_signature" :> JsonString(k.TrustSignature)) @@ ("source" :> JsonString(k.Source))
    @@ ("source_url" :> JsonString(k.SourceUrl))
MarshalArchitecture(a) ==
  ("protocols" :> JsonStrings(a.Protocols)) @@ ("os" :> JsonString(a.Os))
    @@ ("arch" :> JsonString(a.Arch)) @@ ("filename" :> JsonString(a.Filename))
    @@ ("download_url" :> JsonString(a.DownloadUrl))
    @@ ("shasums_url" :> JsonString(a.ShasumsUrl))
    @@ ("shasums_signature_url" :> JsonString(a.ShasumsSignatureUrl))
    @@ ("shasum" :> JsonString(a.Shasum))
    @@ ("signing_keys" :> ("gpg_public_keys" :>
          [i \in 1..Len(a.SigningKeys.GpgPublicKeys) |->
             MarshalGpgPublicKey(a.SigningKeys.GpgPublicKeys[i])]))

\* json.Unmarshal into an Architecture (main.go:40-58): an absent key leaves the zero value
UnmarshalGpgPublicKey(obj) ==
  [KeyId |-> Field(obj, "key_id", <<>>), AsciiArmor |-> Field(obj, "ascii_armor", <<>>),
   TrustSignature |-> Field(obj, "trust_signature", <<>>),
   Source |-> Field(obj, "source", <<>>), SourceUrl |-> Field(obj, "source_url", <<>>)]
UnmarshalArchitecture(obj) ==
  [Protocols |-> Field(obj, "protocols", <<>>),
   Os |-> Field(obj, "os", <<>>),
   Arch |-> Field(obj, "arch", <<>>),
   Filename |-> Field(obj, "filename", <<>>),
   DownloadUrl |-> Field(obj, "download_url", <<>>),
   ShasumsUrl |-> Field(obj, "shasums_url", <<>>),
   ShasumsSignatureUrl |-> Field(obj, "shasums_signature_url", <<>>),
   Shasum |-> Field(obj, "shasum", <<>>),
   SigningKeys |-> [GpgPublicKeys |->
     LET ks == Field(Field(obj, "signing_keys", <<>>), "gpg_public_keys", <<>>)
     IN  [i \in 1..Len(ks) |-> UnmarshalGpgPublicKey(ks[i])]]]

\* main.go:442
archFileName(wk, fileName) ==
  downloadPathPrefix(wk) \o cafFileNameSplit(fileName)[3] \o Slash \o cafFileNameSplit(fileName)[4]

\* a loop body that returns an error where main.go:436 continues
cafEntryNoContinue(disk, wk, entry, key) ==
  IF Len(Split(Split(entry[2], ZipExt)[1], Underscore)) < 4 THEN [ok |-> FALSE, fs |-> disk]
  ELSE writeFile(disk, archFileName(wk, entry[2]),
                 MarshalArchitecture(architecture(wk, entry[1], entry[2], key)))

\* a loop body that removes the documents written so far when a write fails
cafEntryRollback(disk, wk, entry, key) ==
  IF Len(Split(Split(entry[2], ZipExt)[1], Underscore)) < 4 THEN [ok |-> TRUE, fs |-> disk]
  ELSE LET w == writeFile(disk, archFileName(wk, entry[2]),
                          MarshalArchitecture(architecture(wk, entry[1], entry[2], key)))
           others == {p \in DOMAIN disk.files : "filename" \notin DOMAIN disk.files[p]}
       IN  IF w.ok THEN w
           ELSE [ok |-> FALSE, fs |-> [disk EXCEPT !.files = [p \in others |-> disk.files[p]]]]

\* a loop body that also skips the names that do not end in .zip
cafEntryArchivesOnly(disk, wk, entry, key) ==
  IF Len(Split(Split(entry[2], ZipExt)[1], Underscore)) < 4 \/ ~HasSuffix(entry[2], ZipExt)
  THEN [ok |-> TRUE, fs |-> disk]
  ELSE writeFile(disk, archFileName(wk, entry[2]),
                 MarshalArchitecture(architecture(wk, entry[1], entry[2], key)))

\* a loop body that leaves an architecture file that already exists as it is
cafEntryKeepFirst(disk, wk, entry, key) ==
  IF Len(Split(Split(entry[2], ZipExt)[1], Underscore)) < 4 THEN [ok |-> TRUE, fs |-> disk]
  ELSE IF Clean(archFileName(wk, entry[2])) \in DOMAIN disk.files THEN [ok |-> TRUE, fs |-> disk]
  ELSE writeFile(disk, archFileName(wk, entry[2]),
                 MarshalArchitecture(architecture(wk, entry[1], entry[2], key)))

\* main.go:426-478: one row of the manifest; a row with fewer than 4 parts is skipped
cafEntry(disk, wk, entry, key) ==
  IF Len(cafFileNameSplit(entry[2])) < 4 THEN [ok |-> TRUE, fs |-> disk]
  ELSE writeFile(disk, archFileName(wk, entry[2]),
                 MarshalArchitecture(architecture(wk, entry[1], entry[2], key)))

\* one round of the loop at main.go:425-479; a failed write ends the run (main.go:137-139)
CreateArchitectureFilesEntry ==
  /\ pc = "architectures"
  /\ idx <= Len(shaSumContents)
  /\ LET r == cafEntry(fs, wellKnownData, shaSumContents[idx], gpgAsciiPub)
     IN  /\ fs' = r.fs
         /\ pc' = IF r.ok THEN "architectures" ELSE "fatal"
         /\ failure' = IF r.ok THEN "none" ELSE "Error creating architecture files (main.go:138)"
         /\ idx' = IF r.ok THEN idx + 1 ELSE idx
  /\ UNCHANGED <<distManifest, getWellKnown, getVersions, registryWellKnown, registryVersions,
                 wkFetch, versFetch, registryVersionFile, wellKnownData, shaSumContents, ver,
                 versionPath, downloadPath, gpgAsciiPub>>
  /\ UNCHANGED jsonVars

\* createArchitectureFiles and provider() return; main logs success (main.go:109)
Finish ==
  /\ pc = "architectures"
  /\ idx > Len(shaSumContents)
  /\ pc' = "done"
  /\ UNCHANGED <<failure, distManifest, getWellKnown, getVersions, registryWellKnown,
                 registryVersions, wkFetch, versFetch, registryVersionFile, wellKnownData,
                 shaSumContents, idx, ver, versionPath, downloadPath, gpgAsciiPub, fs>>
  /\ UNCHANGED jsonVars

\* ---------------------------------------------------------- specification

Next ==
  \/ DownloadVersionsFile
  \/ CreateVersionsFileManifest
  \/ CreateVersionsFilePlatform
  \/ CreateVersionsFileWrite
  \/ ProviderDirs
  \/ CopyShaFiles
  \/ CreateDownloadsDir
  \/ CreateTargetDirs
  \/ CopyBuildZips
  \/ CreateArchitectureFilesRead
  \/ CreateArchitectureFilesEntry
  \/ Finish

Spec == Init /\ [][Next]_vars

\* ------------------------------------------ json.Marshal and json.Unmarshal

\* strings a value may hold: text, and text with a byte that is no valid UTF-8
invalidText == <<"l", InvalidByte>>
ValidTexts == {linux, amd64}
Texts == ValidTexts \cup {invalidText}

\* the archive name of an architecture
zipOf(arch) == repoName \o Underscore \o version \o Underscore \o linux \o Underscore \o arch \o ZipExt

\* the values of each type with strings among texts
PlatformValues(texts) == {Platform(o, a) : o \in texts, a \in texts}
VersionValues(texts) ==
  {[Version |-> version, Protocols |-> Protocols, Platforms |-> ps] :
     ps \in {<<>>} \cup {<<p>> : p \in PlatformValues(texts)}}
VersionsValues(texts) == {<<>>} \cup {<<v>> : v \in VersionValues(texts)}
WellKnownValues(texts) ==
  {defaultWellKnownData, customWellKnownData}
    \cup {[ProvidersV1 |-> t, ModulesV1 |-> t] : t \in texts}
ArchitectureValues(texts) ==
  {architecture(wk, shasum, zipOf(arch), asciiArmor(<<<<"K">>, <<"Y">>>>)) :
     wk \in {defaultWellKnownData, customWellKnownData}, shasum \in texts, arch \in texts}

JsonValues(texts) ==
  {[kind |-> "Platform", val |-> v] : v \in PlatformValues(texts)}
    \cup {[kind |-> "Version", val |-> v] : v \in VersionValues(texts)}
    \cup {[kind |-> "Versions", val |-> v] : v \in VersionsValues(texts)}
    \cup {[kind |-> "WellKnown", val |-> v] : v \in WellKnownValues(texts)}
    \cup {[kind |-> "Architecture", val |-> v] : v \in ArchitectureValues(texts)}

\* json.Marshal and json.Unmarshal by the type of the value
MarshalOf(v) ==
  CASE v.kind = "Platform" -> MarshalPlatform(v.val)
    [] v.kind = "Version" -> MarshalVersion(v.val)
    [] v.kind = "Versions" -> MarshalVersions(v.val)
    [] v.kind = "WellKnown" -> MarshalWellKnown(v.val)
    [] v.kind = "Architecture" -> MarshalArchitecture(v.val)
UnmarshalOf(kind, obj) ==
  CASE kind = "Platform" -> UnmarshalPlatform(obj)
    [] kind = "Version" -> UnmarshalVersion(obj)
    [] kind = "Versions" -> UnmarshalVersions(obj)
    [] kind = "WellKnown" -> UnmarshalWellKnown(obj)
    [] kind = "Architecture" -> UnmarshalArchitecture(obj)

\* no run of provider() is under way
RunIdle ==
  /\ pc = "idle"
  /\ failure = "none"
  /\ distManifest = plainManifest
  /\ registryWellKnown = plainWellKnown
  /\ registryVersions = plainVersions
  /\ getWellKnown = "ok"
  /\ getVersions = "ok"
  /\ wkFetch = "none"
  /\ versFetch = "none"
  /\ registryVersionFile = <<>>
  /\ wellKnownData = defaultWellKnownData
  /\ shaSumContents = <<>>
  /\ idx = 1
  /\ ver = [Version |-> version, Protocols |-> Protocols, Platforms |-> <<>>]
  /\ versionPath = <<>>
  /\ downloadPath = <<>>
  /\ gpgAsciiPub = <<>>
  /\ fs = [dirs |-> {<<>>, Clean(releaseDir)}, files |-> <<>>]

\* a value of one of the five types is in memory
InitJson ==
  /\ RunIdle
  /\ jsonStage = "value"
  /\ jsonValue \in JsonValues(Texts)
  /\ jsonDocument = <<>>
  /\ jsonDecoded = <<>>

\* json.Marshal of the value
JsonMarshal ==
  /\ jsonStage = "value"
  /\ jsonDocument' = MarshalOf(jsonValue)
  /\ jsonStage' = "emitted"
  /\ UNCHANGED <<jsonValue, jsonDecoded, runVars>>

\* json.Unmarshal of the document into a fresh value of the same type
JsonUnmarshal ==
  /\ jsonStage = "emitted"
  /\ jsonDecoded' = UnmarshalOf(jsonValue.kind, jsonDocument)
  /\ jsonStage' = "parsed"
  /\ UNCHANGED <<jsonValue, jsonDocument, runVars>>

NextJson ==
  \/ JsonMarshal
  \/ JsonUnmarshal

SpecJson == InitJson /\ [][NextJson]_vars

\* ------------------------------------------------------------------ claims

\* the versions document on disk, when createVersionsFile has written it
versionsFile == Clean(versionsPath(wellKnownData))
VersionsWritten == versionsFile \in DOMAIN fs.files
writtenVersions == fs.files[versionsFile]["versions"]

\* the version list the registry served to this run: the list of its body when
\* both fetches went through, no list otherwise
servedVersions ==
  IF wkFetch = "ok" /\ versFetch = "ok" THEN registryVersions.obj["versions"] ELSE <<>>

\* the elements of s at the positions in keep, in the order of s
AtPositions(s, keep) ==
  LET n == Cardinality(keep)
      pos == CHOOSE f \in [1..n -> keep] : \A a, b \in 1..n : a < b => f[a] < f[b]
  IN  [k \in 1..n |-> s[pos[k]]]

\* the records of a served list that no earlier record of the list shares its version with
FirstOccurrences(s) ==
  AtPositions(s, {i \in 1..Len(s) : \A j \in 1..(i - 1) : s[j]["version"] # s[i]["version"]})

\* C1: the version list written by createVersionsFile is the remote list with
\* every later record of an already listed version removed (first occurrence
\* kept, order kept, records unchanged), followed by the new record as the last
\* element; a remote list [1.0.0] and a new build 1.1.0 give [1.0.0, 1.1.0].
C1_MergedHistory ==
  VersionsWritten =>
    /\ writtenVersions = FirstOccurrences(servedVersions) \o <<MarshalVersion(ver)>>
    /\ writtenVersions[Len(writtenVersions)]["version"] = version
    /\ (Len(servedVersions) = 1 /\ servedVersions[1]["version"] = oldVersion
          => [k \in 1..Len(writtenVersions) |-> writtenVersions[k]["version"]]
               = <<oldVersion, version>>)

\* a remote list that lists 1.0.0 twice, with different platforms, has been merged
C1_Witness ==
  /\ VersionsWritten
  /\ Len(servedVersions) = 2
  /\ servedVersions[1]["version"] = oldVersion
  /\ servedVersions[2]["version"] = oldVersion
  /\ servedVersions[1] # servedVersions[2]
  /\ Len(writtenVersions) = 2

\* C2: in the version history written by createVersionsFile no two records
\* share a version string, also when the remote history already lists the
\* version being published.
C2_NoDuplicateVersion ==
  VersionsWritten =>
    \A i, j \in 1..Len(writtenVersions) :
      i # j => writtenVersions[i]["version"] # writtenVersions[j]["version"]

\* the ways a fetch fails, and the ways downloadVersionsFile ends the run
FetchFailures == {"neterr", "non200", "readerr", "badjson"}
DownloadFailures ==
  {"nil error dereferenced (main.go:243)", "nil error dereferenced (main.go:258)",
   "Error creating directory (main.go:251)", "Error writing terraform.json file (main.go:255)"}

\* the fallback copy of the discovery document
wellKnownPath == Clean(wellKnownFile)
WellKnownWritten == wellKnownPath \in DOMAIN fs.files

\* C3: whenever the fetch of the discovery document fails (transport error,
\* status other than 200, body that does not parse), downloadVersionsFile
\* yields an empty remote history and the default discovery document, and a
\* copy of the default document is in release/.well-known/terraform.json.
C3_DiscoveryFallback ==
  wkFetch \in {"neterr", "non200", "badjson"} =>
    /\ failure \notin DownloadFailures
    /\ registryVersionFile = <<>>
    /\ wellKnownData = defaultWellKnownData
    /\ WellKnownWritten
    /\ fs.files[wellKnownPath] = MarshalWellKnown(defaultWellKnownData)

\* C4: no remote-fetch failure ends the run; with the registry unreachable and
\* the two-line manifest readable the run that completes has written a
\* versions document of exactly one record (the new version, protocols 4.0
\* and 5.1, the platforms in manifest order) and the two architecture files.
C4_RemoteFailureNotFatal ==
  (wkFetch \in FetchFailures \/ versFetch \in FetchFailures) =>
    /\ failure \notin DownloadFailures
    /\ (wkFetch = "neterr" /\ distManifest = plainManifest /\ pc = "done" =>
          /\ VersionsWritten
          /\ writtenVersions =
               <<MarshalVersion([Version |-> version, Protocols |-> Protocols,
                   Platforms |-> <<Platform(linux, amd64), Platform(darwin, arm64)>>])>>
          /\ Clean(downloadPathPrefix(wellKnownData) \o linux \o Slash \o amd64)
               \in DOMAIN fs.files
          /\ Clean(downloadPathPrefix(wellKnownData) \o darwin \o Slash \o arm64)
               \in DOMAIN fs.files)

\* C5: when the discovery fetch succeeds and the version-list fetch fails, the
\* run goes on with an empty remote history and the discovery document that
\* was fetched, and release/.well-known/terraform.json is not written; that
\* file is written only in runs whose discovery fetch failed.
C5_VersionsFetchFailure ==
  /\ (wkFetch = "ok" /\ versFetch \in FetchFailures =>
        /\ failure \notin DownloadFailures
        /\ registryVersionFile = <<>>
        /\ wellKnownData.ProvidersV1 = registryWellKnown.obj["providers.v1"]
        /\ wellKnownData.ModulesV1 = registryWellKnown.obj["modules.v1"]
        /\ ~WellKnownWritten)
  /\ (WellKnownWritten => wkFetch \in FetchFailures)

\* a run whose version-list fetch got a 404 has completed with the fetched document
C5_Witness ==
  /\ wkFetch = "ok"
  /\ versFetch = "non200"
  /\ pc = "done"
  /\ wellKnownData = customWellKnownData
  /\ wellKnownData # defaultWellKnownData

\* the lines of a text: its newline-separated parts, a final newline ending the last line
TextLines(text) ==
  LET parts == Split(text, <<NL>>)
  IN  IF parts[Len(parts)] = <<>> THEN SubSeq(parts, 1, Len(parts) - 1) ELSE parts
NonEmptyLines(text) == SelectSeq(TextLines(text), LAMBDA l : l # <<>>)
HasSeparator(line) == Index(line, TwoSpaces) > 0

\* createVersionsFile has called getShaSumContents
ManifestParsed ==
  pc \notin {"downloadVersionsFile", "getShaSumContents"} /\ failure \notin DownloadFailures

\* C6: getShaSumContents returns one entry per non-empty line of the manifest
\* text, in the order of the lines, each of exactly the two fields checksum
\* and filename, also for a manifest that holds blank lines.  Stated for the
\* manifests whose non-empty lines all hold the separator.
C6_OneEntryPerLine ==
  ( /\ distManifest.exists
    /\ ManifestParsed
    /\ \A k \in 1..Len(NonEmptyLines(distManifest.text)) :
         HasSeparator(NonEmptyLines(distManifest.text)[k]) ) =>
    /\ failure # "index out of range (main.go:390)"
    /\ Len(shaSumContents) = Len(NonEmptyLines(distManifest.text))
    /\ \A k \in 1..Len(shaSumContents) :
         /\ Len(shaSumContents[k]) = 2
         /\ NonEmptyLines(distManifest.text)[k]
              = shaSumContents[k][1] \o TwoSpaces \o shaSumContents[k][2]

\* C7: a manifest line without the two-space separator makes the parser
\* return an error; it does not crash on the index and does not drop the line.
C7_MalformedLineReported ==
  ( /\ distManifest.exists
    /\ ManifestParsed
    /\ \E k \in 1..Len(NonEmptyLines(distManifest.text)) :
         ~HasSeparator(NonEmptyLines(distManifest.text)[k]) ) =>
    /\ pc = "fatal"
    /\ failure = "Error creating versions file (main.go:115)"

\* C8: when the checksum manifest cannot be opened, getShaSumContents returns
\* an error, the run aborts, and neither a versions document nor an
\* architecture document is written.
C8_ManifestUnreadable ==
  ~distManifest.exists =>
    /\ pc # "done"
    /\ DOMAIN fs.files \subseteq {wellKnownPath}
    /\ (ManifestParsed =>
          pc = "fatal" /\ failure = "Error creating versions file (main.go:115)")

\* the run has aborted on the missing manifest
C8_Witness ==
  /\ ~distManifest.exists
  /\ pc = "fatal"
  /\ failure = "Error creating versions file (main.go:115)"
  /\ wkFetch = "ok"

\* a file name's part before the first ".zip", and the number of its "_"-separated parts
Stem(fileName) ==
  LET i == Index(fileName, ZipExt) IN IF i = 0 THEN fileName ELSE SubSeq(fileName, 1, i - 1)
TokenCount(s) == 1 + Cardinality({i \in 1..Len(s) : s[i] = "_"})
ShortName(fileName) == TokenCount(Stem(fileName)) < 4

\* the architecture file of a manifest row that has os and arch parts
ArchPathOf(entry) ==
  Clean(downloadPathPrefix(wellKnownData) \o Split(Stem(entry[2]), Underscore)[3]
          \o Slash \o Split(Stem(entry[2]), Underscore)[4])

\* a loop of the run stands before a row whose file name is short
AtShortName(loop) ==
  pc = loop /\ idx <= Len(shaSumContents) /\ ShortName(shaSumContents[idx][2])

\* a loop standing before a short name steps to the next row and changes nothing else
C9_Step ==
  /\ (AtShortName("platforms") \/ AtShortName("architectures") =>
        ver' = ver /\ fs' = fs /\ pc' = pc /\ failure' = failure /\ idx' = idx + 1)

\* a completed run holds the platform and the architecture file of every row
\* that is not short, written for that row or for a later row of the same
\* platform, and no architecture file of a short one
C9_Done ==
  pc = "done" =>
    /\ Len(ver.Platforms) = Cardinality({k \in 1..Len(shaSumContents) : ~ShortName(shaSumContents[k][2])})
    /\ \A k \in 1..Len(shaSumContents) :
         ~ShortName(shaSumContents[k][2]) =>
           /\ ArchPathOf(shaSumContents[k]) \in DOMAIN fs.files
           /\ \E j \in k..Len(shaSumContents) :
                /\ ~ShortName(shaSumContents[j][2])
                /\ ArchPathOf(shaSumContents[j]) = ArchPathOf(shaSumContents[k])
                /\ fs.files[ArchPathOf(shaSumContents[k])]["filename"] = shaSumContents[j][2]
    /\ \A p \in DOMAIN fs.files :
         "filename" \in DOMAIN fs.files[p] => ~ShortName(fs.files[p]["filename"])

\* C9: a manifest entry whose file name, the .zip part removed, has fewer than
\* 4 "_"-separated parts adds no platform to the new version record and no
\* architecture file, and does not end the run: both loops go on to the next
\* entry, and every later entry is processed.
C9_ShortNameSkipped == []C9_Done /\ [][C9_Step]_vars

\* a run has completed on a manifest that lists README.txt before an archive
C9_Witness ==
  /\ pc = "done"
  /\ Len(shaSumContents) = 2
  /\ shaSumContents[1][2] = readmeTxt
  /\ shaSumContents[2][2] = zipLinux
  /\ ver.Platforms = <<Platform(linux, amd64)>>
  /\ ArchPathOf(shaSumContents[2]) \in DOMAIN fs.files

\* a name that ends in .zip and has at least 4 parts before it
ZipArchive(fileName) == HasSuffix(fileName, ZipExt) /\ ~ShortName(fileName)

\* C10: platform extraction crashes on no file name, and every file name
\* that is not a .zip name of at least 4 parts is skipped: a name without the
\* .zip suffix yields no platform and no architecture file.
C10_NonZipSkipped ==
  /\ (pc = "platforms" =>
        Len(ver.Platforms) =
          Cardinality({k \in 1..(idx - 1) : ZipArchive(shaSumContents[k][2])}))
  /\ \A p \in DOMAIN fs.files :
       "filename" \in DOMAIN fs.files[p] => ZipArchive(fs.files[p]["filename"])

\* the (os, arch) a file name of at least 4 parts names: its third and fourth part
PlatformOf(fileName) ==
  [Os |-> Split(Stem(fileName), Underscore)[3], Arch |-> Split(Stem(fileName), Underscore)[4]]

\* the platforms of the rows that are not short, in the order of the rows
ExtractedPlatforms(rows) ==
  LET kept == SelectSeq(rows, LAMBDA r : ~ShortName(r[2]))
  IN  [k \in 1..Len(kept) |-> PlatformOf(kept[k][2])]

\* C11: the new version record has the run's version, the protocols 4.0 and
\* 5.1, and as platforms the (os, arch) of every manifest entry of at least 4
\* parts, in manifest order, an (os, arch) that two entries yield listed twice;
\* the record is written as the last of the versions document.
C11_NewVersionRecord ==
  /\ ver.Version = version
  /\ ver.Protocols = << <<"4", ".", "0">>, <<"5", ".", "1">> >>
  /\ (pc = "platforms" =>
        ver.Platforms = ExtractedPlatforms(SubSeq(shaSumContents, 1, idx - 1)))
  /\ (VersionsWritten =>
        /\ ver.Platforms = ExtractedPlatforms(shaSumContents)
        /\ writtenVersions[Len(writtenVersions)]
             = ("version" :> version) @@ ("protocols" :> << <<"4", ".", "0">>, <<"5", ".", "1">> >>)
                 @@ ("platforms" :> [k \in 1..Len(ver.Platforms) |->
                       ("os" :> ver.Platforms[k].Os) @@ ("arch" :> ver.Platforms[k].Arch)]))

\* the versions document is written for a manifest that lists the linux archive twice
C11_Witness ==
  /\ VersionsWritten
  /\ Len(shaSumContents) = 2
  /\ shaSumContents[1][2] = zipLinux
  /\ shaSumContents[2][2] = zipLinux
  /\ ver.Platforms = <<Platform(linux, amd64), Platform(linux, amd64)>>
  /\ Len(writtenVersions[Len(writtenVersions)]["platforms"]) = 2

\* the architecture documents on disk
ArchDocPaths == {p \in DOMAIN fs.files : "filename" \in DOMAIN fs.files[p]}

\* https://<domain><providersPath><namespace>/<providerName>/<version>/
VersionUrl ==
  <<"h", "t", "t", "p", "s", ":", "/", "/">> \o domain \o wellKnownData.ProvidersV1 \o namespace \o <<"/">> \o providerName
    \o <<"/">> \o version \o <<"/">>

\* the rows that have os and arch parts
Recognized(k) == k \in 1..Len(shaSumContents) /\ ~ShortName(shaSumContents[k][2])

\* C12: every architecture document on disk is the document of a recognized
\* manifest entry: its shasum and filename are the entry's, its download_url is
\* https://<domain><providersPath><namespace>/<providerName>/<version>/download/<filename>,
\* its shasums_url is .../<version>/<repoName>_<version>_SHA256SUMS, its
\* shasums_signature_url is that followed by ".sig", and it holds exactly one
\* signing key, of the supplied fingerprint, with empty trust_signature, source
\* and source_url; a completed run holds such a document for every recognized entry.
C12_ArchitectureDocument ==
  /\ \A p \in ArchDocPaths :
       LET doc == fs.files[p]
           keys == doc["signing_keys"]["gpg_public_keys"]
       IN  /\ \E k \in 1..Len(shaSumContents) :
                /\ Recognized(k)
                /\ p = ArchPathOf(shaSumContents[k])
                /\ doc["shasum"] = shaSumContents[k][1]
                /\ doc["filename"] = shaSumContents[k][2]
           /\ doc["download_url"] = VersionUrl \o <<"d", "o", "w", "n", "l", "o", "a", "d", "/">> \o doc["filename"]
           /\ doc["shasums_url"] = VersionUrl \o repoName \o <<"_">> \o version \o <<"_", "S", "H", "A", "2", "5", "6", "S", "U", "M", "S">>
           /\ doc["shasums_signature_url"] = doc["shasums_url"] \o <<".", "s", "i", "g">>
           /\ Len(keys) = 1
           /\ keys[1]["key_id"] = gpgFingerprint
           /\ keys[1]["trust_signature"] = <<>>
           /\ keys[1]["source"] = <<>>
           /\ keys[1]["source_url"] = <<>>
  /\ (pc = "done" =>
        \A k \in 1..Len(shaSumContents) :
          Recognized(k) => ArchPathOf(shaSumContents[k]) \in ArchDocPaths)

\* a completed run has written the document of the linux archive with its URLs
C12_Witness ==
  /\ pc = "done"
  /\ wellKnownData = customWellKnownData
  /\ \E p \in ArchDocPaths :
       /\ fs.files[p]["filename"] = zipLinux
       /\ fs.files[p]["shasum"] = <<"a", "a">>
       /\ fs.files[p]["download_url"] = <<"h", "t", "t", "p", "s", ":", "/", "/", "d", ".", "i", "o", "/", "p", "/", "n", "s", "/", "a", "c", "/", "1", ".", "1", ".", "0", "/", "d", "o", "w", "n", "l", "o", "a", "d", "/", "t", "p", "_", "1", ".", "1", ".", "0", "_", "l", "i", "n", "u", "x", "_", "a", "m", "d", "6", "4", ".", "z", "i", "p">>
       /\ fs.files[p]["shasums_url"] = <<"h", "t", "t", "p", "s", ":", "/", "/", "d", ".", "i", "o", "/", "p", "/", "n", "s", "/", "a", "c", "/", "1", ".", "1", ".", "0", "/", "t", "p", "_", "1", ".", "1", ".", "0", "_", "S", "H", "A", "2", "5", "6", "S", "U", "M", "S">>
       /\ fs.files[p]["shasums_signature_url"] = <<"h", "t", "t", "p", "s", ":", "/", "/", "d", ".", "i", "o", "/", "p", "/", "n", "s", "/", "a", "c", "/", "1", ".", "1", ".", "0", "/", "t", "p", "_", "1", ".", "1", ".", "0", "_", "S", "H", "A", "2", "5", "6", "S", "U", "M", "S", ".", "s", "i", "g">>

\* release<providersPath><namespace>/<providerName>/<version>/
VersionDir ==
  <<"r", "e", "l", "e", "a", "s", "e">> \o wellKnownData.ProvidersV1 \o namespace \o <<"/">> \o providerName
    \o <<"/">> \o version \o <<"/">>

\* <VersionDir>download/<os>/<arch> of a platform
ArchFileOf(platform) == Clean(VersionDir \o <<"d", "o", "w", "n", "l", "o", "a", "d", "/">> \o platform.Os \o <<"/">> \o platform.Arch)

\* the createArchitectureFiles loop has ended the run on the write of row idx
ArchWriteFailed ==
  /\ pc = "fatal"
  /\ failure = "Error creating architecture files (main.go:138)"
  /\ idx <= Len(shaSumContents)

\* C13: the architecture document of every entry that yields a platform is
\* written to release<providersPath><namespace>/<providerName>/<version>/download/<os>/<arch>,
\* the directories on the way created when absent; no write fails on an os
\* outside darwin, freebsd, linux and windows.
C13_WrittenWhateverOs ==
  /\ (pc = "architectures" =>
        \A k \in 1..(idx - 1) :
          Recognized(k) => ArchFileOf(PlatformOf(shaSumContents[k][2])) \in ArchDocPaths)
  /\ (ArchWriteFailed =>
        PlatformOf(shaSumContents[idx][2]).Os \in {darwin, freebsd, linux, windows})

\* createVersionsFile has returned without an error
VersionsStepDone ==
  pc \in {"providerDirs", "copyShaFiles", "createDownloadsDir", "createTargetDirs",
          "copyBuildZips", "createArchitectureFiles", "architectures", "done"}

\* the files on disk that hold a version history
VersionsDocPaths == {p \in DOMAIN fs.files : "versions" \in DOMAIN fs.files[p]}

\* release<providersPath><namespace>/<providerName>/versions
ProviderVersionsFile ==
  Clean(<<"r", "e", "l", "e", "a", "s", "e">> \o wellKnownData.ProvidersV1 \o namespace \o <<"/">> \o providerName \o <<"/", "v", "e", "r", "s", "i", "o", "n", "s">>)

\* C14 as stated: the merged version history is written to
\* release<providersPath><namespace>/<providerName>/<version>/versions, inside
\* the directory of the version being published.
C14_VersionsInVersionDir ==
  VersionsStepDone => Clean(VersionDir \o <<"v", "e", "r", "s", "i", "o", "n", "s">>) \in VersionsDocPaths

\* C14 amended: the merged version history is written to
\* release<providersPath><namespace>/<providerName>/versions, beside the version
\* directories and not inside one; the run writes no other version history.
C14_VersionsBesideVersionDir ==
  /\ (VersionsStepDone =>
        /\ VersionsDocPaths = {ProviderVersionsFile}
        /\ fs.files[ProviderVersionsFile]
             = MarshalVersions(mergeVersions(registryVersionFile, ver)))
  /\ VersionsDocPaths \subseteq {ProviderVersionsFile}
  /\ Clean(VersionDir \o <<"v", "e", "r", "s", "i", "o", "n", "s">>) \notin VersionsDocPaths

\* a completed run holds the history in release/p/ns/ac/versions beside release/p/ns/ac/1.1.0
C14_Witness ==
  /\ pc = "done"
  /\ wellKnownData = customWellKnownData
  /\ ProviderVersionsFile = << <<"r", "e", "l", "e", "a", "s", "e">>, <<"p">>, <<"n", "s">>, <<"a", "c">>, <<"v", "e", "r", "s", "i", "o", "n", "s">> >>
  /\ ProviderVersionsFile \in VersionsDocPaths
  /\ << <<"r", "e", "l", "e", "a", "s", "e">>, <<"p">>, <<"n", "s">>, <<"a", "c">>, <<"1", ".", "1", ".", "0">> >> \in fs.dirs

\* the run has ended on the read of the public key file
KeyUnreadable == failure = "Error reading key file (main.go:417)"

\* the key texts createArchitectureFiles can have read
ReadableKeys == {asciiArmor(ScanLines(g.text)) : g \in {h \in GpgFiles : h.exists}}

\* C15: when the public key file cannot be read the run aborts with no
\* architecture document written, and the versions document, the copied
\* checksum manifest with its signature and the copied archives are on disk;
\* no architecture document is written without the text of the key.
C15_KeyUnreadable ==
  /\ (KeyUnreadable =>
        /\ pc = "fatal"
        /\ ArchDocPaths = {}
        /\ ProviderVersionsFile \in VersionsDocPaths
        /\ Clean(versionPath \o shaSumFileName) \in DOMAIN fs.files
        /\ Clean(versionPath \o shaSumFileName \o <<".", "s", "i", "g">>) \in DOMAIN fs.files
        /\ \A k \in 1..Len(shaSumContents) :
             HasSuffix(shaSumContents[k][2], ZipExt)
               => Clean(downloadPath \o shaSumContents[k][2]) \in DOMAIN fs.files)
  /\ \A p \in ArchDocPaths :
       fs.files[p]["signing_keys"]["gpg_public_keys"][1]["ascii_armor"] \in ReadableKeys

\* the run has aborted on the key file with both archives of the plain build copied
C15_Witness ==
  /\ KeyUnreadable
  /\ pc = "fatal"
  /\ distManifest = plainManifest
  /\ Clean(downloadPath \o zipLinux) \in DOMAIN fs.files
  /\ Clean(downloadPath \o zipDarwin) \in DOMAIN fs.files
  /\ ProviderVersionsFile \in VersionsDocPaths

\* a value has been through json.Marshal and json.Unmarshal
JsonRoundDone == jsonStage = "parsed"

\* the values all of whose strings are valid UTF-8
ValidJsonValues == JsonValues(ValidTexts)

EmissionReached == pc \in {"createArchitectureFiles", "architectures", "done"}

\* C17: in every run that reaches createArchitectureFiles the directories
\* download/darwin, download/freebsd, download/linux and download/windows under
\* release<providersPath><namespace>/<providerName>/<version>/ exist from then
\* on, so before the first architecture document is written, whichever
\* platforms the manifest lists.
C17_TargetDirsFirst ==
  (EmissionReached \/ ArchDocPaths # {}) =>
    \A os \in {darwin, freebsd, linux, windows} :
      Clean(VersionDir \o <<"d", "o", "w", "n", "l", "o", "a", "d", "/">> \o os) \in fs.dirs

\* the step on which a write of createArchitectureFiles fails leaves the disk as it was
C18_Step == (pc = "architectures" /\ pc' = "fatal") => fs' = fs

\* after a failed write the documents on disk are those of the recognized rows
\* before the failed one, and what the earlier steps wrote is still there
C18_Failed ==
  ArchWriteFailed =>
    /\ Recognized(idx)
    /\ \A k \in 1..(idx - 1) :
         Recognized(k) => ArchFileOf(PlatformOf(shaSumContents[k][2])) \in ArchDocPaths
    /\ \A p \in ArchDocPaths :
         \E k \in 1..(idx - 1) :
           /\ Recognized(k)
           /\ p = ArchFileOf(PlatformOf(shaSumContents[k][2]))
           /\ fs.files[p] = MarshalArchitecture(
                architecture(wellKnownData, shaSumContents[k][1], shaSumContents[k][2], gpgAsciiPub))
    /\ ProviderVersionsFile \in VersionsDocPaths
    /\ Clean(versionPath \o shaSumFileName) \in DOMAIN fs.files
    /\ \A k \in 1..Len(shaSumContents) :
         HasSuffix(shaSumContents[k][2], ZipExt)
           => Clean(downloadPath \o shaSumContents[k][2]) \in DOMAIN fs.files

\* C18: when the write of the architecture document of a recognized entry
\* fails, the documents of the recognized entries before it stay on disk
\* unchanged, no document of a later entry is written, and nothing the run
\* wrote earlier is removed.
C18_PartialFailure == []C18_Failed /\ [][C18_Step]_vars

\* the write for plan9 has failed after the document of the linux archive was written
C18_Witness ==
  /\ ArchWriteFailed
  /\ idx = 2
  /\ shaSumContents[1][2] = zipLinux
  /\ shaSumContents[2][2] = zipPlan9
  /\ ArchFileOf(Platform(linux, amd64)) \in ArchDocPaths

\* copyBuildZips has returned without an error
CopyStepDone == EmissionReached \/ KeyUnreadable \/ ArchWriteFailed

\* the copy of a listed file in the download directory
CopiedTo(fileName) == Clean(downloadPath \o fileName)
IsCopied(fileName) ==
  /\ CopiedTo(fileName) \in DOMAIN fs.files
  /\ fs.files[CopiedTo(fileName)] = [copyOf |-> <<"d", "i", "s", "t", "/">> \o fileName]

\* C19: copyBuildZips copies a manifest entry exactly when its file name ends
\* in .zip, whatever the number of its parts, and fails on no entry it skips;
\* platform extraction looks at the number of parts of the stem only; so a
\* .zip name of fewer than 4 parts is copied and yields no platform, and a
\* name of 4 parts without .zip yields a platform and is not copied.
C19_CopyAndExtraction ==
  /\ (CopyStepDone =>
        \A k \in 1..Len(shaSumContents) :
          IsCopied(shaSumContents[k][2]) <=> HasSuffix(shaSumContents[k][2], ZipExt))
  /\ (failure = "Error copying build zips (main.go:133)" =>
        \E k \in 1..Len(shaSumContents) : HasSuffix(shaSumContents[k][2], ZipExt))
  /\ (VersionsWritten =>
        Len(ver.Platforms)
          = Cardinality({k \in 1..Len(shaSumContents) : TokenCount(Stem(shaSumContents[k][2])) >= 4}))

\* a completed run has copied a .zip of 2 parts that gave no platform, and has
\* listed the platform of a name of 4 parts that it did not copy
C19_Witness ==
  /\ pc = "done"
  /\ Len(shaSumContents) = 2
  /\ shaSumContents[1][2] = zipShort
  /\ shaSumContents[2][2] = noZipLinux
  /\ IsCopied(zipShort)
  /\ ~IsCopied(noZipLinux)
  /\ ver.Platforms = <<Platform(linux, arm64)>>

\* C20: the local paths of a run agree, whatever providers.v1 the discovery
\* document holds: the version directory providerDirs made is the directory
\* createArchitectureFiles takes for release<providersPath><namespace>/<providerName>/<version>/,
\* the download directory createDownloadsDir made and createTargetDirs filled is
\* the one createArchitectureFiles writes download/<os>/<arch> into, and the
\* versions document lies in the directory that holds the version directory.
C20_PathsConsistent ==
  /\ (pc \notin {"providerDirs", "fatal"} /\ versionPath # <<>> =>
        /\ Clean(versionPath) = Clean(pathPrefix(wellKnownData))
        /\ Parent(Clean(versionPath)) = Parent(ProviderVersionsFile))
  /\ (pc \notin {"createDownloadsDir", "fatal"} /\ downloadPath # <<>> =>
        Clean(downloadPath) = Clean(downloadPathPrefix(wellKnownData)))
  /\ (ArchWriteFailed =>
        PlatformOf(shaSumContents[idx][2]).Os \notin {darwin, freebsd, linux, windows})

\* the file of the release tree that a URL of the registry names:
\* https://<domain><path> is served from release<path>
HttpsDomain == <<"h", "t", "t", "p", "s", ":", "/", "/">> \o domain
UnderDomain(url) == SubSeq(url, 1, Len(HttpsDomain)) = HttpsDomain
ServedFile(url) == Clean(<<"r", "e", "l", "e", "a", "s", "e">> \o SubSeq(url, Len(HttpsDomain) + 1, Len(url)))

\* the file a URL names is in the release tree and is the copy of dist/<name>
NamesCopyOf(url, name) ==
  /\ UnderDomain(url)
  /\ ServedFile(url) \in DOMAIN fs.files
  /\ fs.files[ServedFile(url)] = [copyOf |-> name]

\* the manifest as copyShaFiles names it: the dist path, "/", the file name
DistManifestName == <<"d", "i", "s", "t", "/", "/">> \o repoName \o <<"_">> \o version \o <<"_", "S", "H", "A", "2", "5", "6", "S", "U", "M", "S">>

\* the archive of an architecture document lies in the download directory
ArchiveCopied(doc) ==
  /\ IsCopied(doc["filename"])
  /\ NamesCopyOf(doc["download_url"], <<"d", "i", "s", "t", "/">> \o doc["filename"])
  /\ ServedFile(doc["download_url"]) = CopiedTo(doc["filename"])

\* the manifest and signature of an architecture document lie in the version directory
ShaFilesCopied(doc) ==
  /\ NamesCopyOf(doc["shasums_url"], DistManifestName)
  /\ NamesCopyOf(doc["shasums_signature_url"], DistManifestName \o <<".", "s", "i", "g">>)
  /\ Parent(ServedFile(doc["shasums_url"])) = Clean(versionPath)
  /\ Parent(ServedFile(doc["shasums_signature_url"])) = Clean(versionPath)

\* C21: in a completed run every architecture document refers to files of the
\* release tree only: the archive named by its filename and download_url was
\* copied into the download directory of the version, and the manifest and the
\* signature named by shasums_url and shasums_signature_url were copied into
\* the version directory.
C21_RefersToCopiedFiles ==
  pc = "done" => \A p \in ArchDocPaths : ArchiveCopied(fs.files[p]) /\ ShaFilesCopied(fs.files[p])

\* the same for the documents of the names that end in .zip, and the
\* manifest and signature of every document
C21_ZipDocsReferToCopies ==
  pc = "done" =>
    \A p \in ArchDocPaths :
      /\ HasSuffix(fs.files[p]["filename"], ZipExt) => ArchiveCopied(fs.files[p])
      /\ ShaFilesCopied(fs.files[p])

\* a completed run with documents under a fetched discovery document
C21_Reached ==
  /\ pc = "done"
  /\ wellKnownData = customWellKnownData
  /\ \E p \in ArchDocPaths : ArchiveCopied(fs.files[p]) /\ ShaFilesCopied(fs.files[p])

\* the (os, arch) pairs the new version record of the versions document lists
ListedPlatforms ==
  LET record == writtenVersions[Len(writtenVersions)]
  IN  {Platform(record["platforms"][i]["os"], record["platforms"][i]["arch"]) :
         i \in 1..Len(record["platforms"])}

\* the (os, arch) pairs of the architecture files: the last two components of
\* <VersionDir>download/<os>/<arch>
WrittenPlatforms == {Platform(p[Len(p) - 1], p[Len(p)]) : p \in ArchDocPaths}

\* C22: in a completed run the set of (os, arch) pairs in the platforms of the
\* new version record equals the set of (os, arch) pairs that have an
\* architecture file download/<os>/<arch> written by the run, each file lying in
\* the download directory of the version and holding its own os and arch.
C22_PlatformsAreFiles ==
  pc = "done" =>
    /\ VersionsWritten
    /\ writtenVersions[Len(writtenVersions)]["version"] = version
    /\ ListedPlatforms = WrittenPlatforms
    /\ ListedPlatforms = {ver.Platforms[i] : i \in 1..Len(ver.Platforms)}
    /\ \A p \in ArchDocPaths :
         /\ p = ArchFileOf(Platform(p[Len(p) - 1], p[Len(p)]))
         /\ fs.files[p]["os"] = p[Len(p) - 1]
         /\ fs.files[p]["arch"] = p[Len(p)]

\* a completed run over a manifest of two rows of different platforms has
\* listed the two platforms and written their two files
C22_Witness ==
  /\ pc = "done"
  /\ Len(shaSumContents) = 2
  /\ ListedPlatforms = {Platform(darwin, arm64), Platform(linux, arm64)}
  /\ WrittenPlatforms = {Platform(darwin, arm64), Platform(linux, arm64)}
  /\ Cardinality(ArchDocPaths) = 2

\* a completed run whose manifest yields no platform has written no file
C22_NoneReached ==
  /\ pc = "done"
  /\ Len(shaSumContents) > 0
  /\ ListedPlatforms = {}
  /\ WrittenPlatforms = {}

\* the rows of the manifest that yield a platform, and the last of them
RowsOf(platform) ==
  {k \in 1..Len(shaSumContents) : Recognized(k) /\ PlatformOf(shaSumContents[k][2]) = platform}
LastRowOf(platform) == CHOOSE k \in RowsOf(platform) : \A j \in RowsOf(platform) : j <= k

\* the platforms the manifest yields
YieldedPlatforms ==
  {PlatformOf(shaSumContents[k][2]) : k \in {j \in 1..Len(shaSumContents) : Recognized(j)}}

\* the architecture documents on disk that hold a platform
DocsOf(platform) ==
  {p \in ArchDocPaths : fs.files[p]["os"] = platform.Os /\ fs.files[p]["arch"] = platform.Arch}

\* the places of a platform in the platforms of the new version record
ListedAt(platform) ==
  LET listed == writtenVersions[Len(writtenVersions)]["platforms"]
  IN  {i \in 1..Len(listed) : Platform(listed[i]["os"], listed[i]["arch"]) = platform}

\* C23: after a completed run every platform the manifest yields has exactly
\* one architecture file, download/<os>/<arch>, which holds the checksum,
\* filename and download_url of the last manifest entry that yields the
\* platform, while the new version record lists the platform once per entry
\* that yields it: twice when two entries do.
C23_LastEntryWins ==
  pc = "done" =>
    \A platform \in YieldedPlatforms :
      /\ DocsOf(platform) = {ArchFileOf(platform)}
      /\ LET doc == fs.files[ArchFileOf(platform)]
             last == shaSumContents[LastRowOf(platform)]
         IN  /\ doc["shasum"] = last[1]
             /\ doc["filename"] = last[2]
             /\ doc["download_url"] = VersionUrl \o <<"d", "o", "w", "n", "l", "o", "a", "d", "/">> \o last[2]
      /\ Cardinality(ListedAt(platform)) = Cardinality(RowsOf(platform))
      /\ Cardinality({i \in 1..Len(ver.Platforms) : ver.Platforms[i] = platform})
           = Cardinality(RowsOf(platform))

\* a completed run over two entries of linux/amd64 with different checksums
\* and file names has one file, with the data of the second, and lists the
\* platform twice
C23_Witness ==
  /\ pc = "done"
  /\ shaSumContents = << <<<<"a", "a">>, zipLinux>>, <<<<"f", "f">>, zipLinuxAgain>> >>
  /\ ArchDocPaths = {ArchFileOf(Platform(linux, amd64))}
  /\ fs.files[ArchFileOf(Platform(linux, amd64))]["shasum"] = <<"f", "f">>
  /\ fs.files[ArchFileOf(Platform(linux, amd64))]["filename"] = zipLinuxAgain
  /\ ListedAt(Platform(linux, amd64)) = {1, 2}

====
